---- MODULE Spec2Model ----
(***************************************************************************)
(* A model of the crawl orchestrator fscrawler/controller/fsapi.py:        *)
(* request partitioning (split_seq, partition_requests), relationship-type *)
(* resolution (get_relationship_type, _update_relationship_info,           *)
(* process_relationship_result), person ingestion (process_persons_result) *)
(* and the per-hop control algorithm (add_individuals_to_graph,            *)
(* resolve_relationships, process_hop).                                    *)
(*                                                                         *)
(* Four specifications share the module:                                   *)
(*   SpecPartition  partition_requests as a pure function of its inputs    *)
(*   SpecResolve    process_relationship_result, one parent slot at a time,*)
(*                  applied twice to the same response                     *)
(*   SpecIngest     process_persons_result as a function of the response   *)
(*                  document and the graph it is applied to                *)
(*   Spec           process_hop against a remote tree, one step per        *)
(*                  suspension point of the event loop                     *)
(***************************************************************************)
EXTENDS Integers, Sequences, FiniteSets, TLC

VARIABLES
    \* ---- SpecPartition: the arguments and the result of partition_requests
    p_ids, p_exclusion, p_max, p_width, p_out, p_pc,
    \* ---- SpecResolve: process_relationship_result(data, graph)
    r_data,     \* the response document
    r_rels,     \* graph.relationships: (child, parent) -> type
    r_before,   \* graph.relationships when the call started
    r_i,        \* the loop of line 91: index of the record being processed
    r_pc,       \* call, at1 (before line 95), at2 (before line 96), next, done
    r_pass,     \* 1 in the first call, 2 when the same response is applied again
    r_log,      \* the diagnostics (line 73) the call has emitted so far
    \* ---- SpecIngest: process_persons_result(data, graph, hop_count)
    i_data,     \* the response document
    i_graph,    \* the graph when the call started
    i_hop,      \* hop_count
    i_out,      \* the graph when the call ended, with whether it raised
    i_pc,       \* call, done
    \* ---- Spec: the graph, and process_hop's position
    individuals,    \* graph.individuals: id -> the Individual (its hop)
    frontier,       \* graph.frontier
    relationships,  \* graph.relationships: (child, parent) -> type
    validator,      \* graph.cp_validator: the (child, parent, rel_id) reported
    hop_count,      \* the hop the driver is running, or will run next
    pc,             \* idle, persons, resolve, aborted
    plan,           \* the groups partition_requests produced for the phase
    gen,            \* how many groups of plan the for loop has taken
    inflight,       \* the fetches awaited: (group, batch) indices into plan
    reply,          \* what the session answers to each fetch of the phase
    timer,          \* what is left of time.sleep(delay)
    processed,      \* history: the (group, batch) whose result was processed
    order,          \* history: the current group's batches, as they completed
    slept,          \* history: the groups whose delay has elapsed
    snap,           \* history: the graph when the current group was launched
    todo0,          \* history: the frontier at hop start
    known0,         \* history: the known individual ids at hop start
    pruned,         \* history: the ids line 156 removed from the frontier
    created,        \* history: id -> how often line 113 ran for it
    failed,         \* history: the (phase, group, batch) whose fetch raised
    requested       \* history: id -> how many person fetches of the hop asked for it

p_vars == <<p_ids, p_exclusion, p_max, p_width, p_out, p_pc>>

r_vars == <<r_data, r_rels, r_before, r_i, r_pc, r_pass, r_log>>

i_vars == <<i_data, i_graph, i_hop, i_out, i_pc>>

g_vars == <<individuals, frontier, relationships, validator>>

h_vars == <<g_vars, hop_count, pc, plan, gen, inflight, reply, timer, processed,
            order, slept, snap, todo0, known0, pruned, created, failed, requested>>

vars == <<p_vars, r_vars, i_vars, h_vars>>

\* the variables of a specification that is not the one running
POff ==
    /\ p_ids = <<>> /\ p_exclusion = {} /\ p_max = 0 /\ p_width = 0
    /\ p_out = <<>> /\ p_pc = "off"

ROff ==
    /\ r_data = <<>> /\ r_rels = <<>> /\ r_before = <<>> /\ r_i = 0 /\ r_pc = "off"
    /\ r_pass = 0 /\ r_log = <<>>

IOff ==
    /\ i_data = <<>> /\ i_graph = <<>> /\ i_hop = 0 /\ i_out = <<>> /\ i_pc = "off"

HOff ==
    /\ individuals = <<>> /\ frontier = {} /\ relationships = <<>> /\ validator = {}
    /\ hop_count = 0 /\ pc = "off" /\ plan = <<>> /\ gen = 0 /\ inflight = {}
    /\ reply = <<>> /\ order = <<>>
    /\ timer = 0 /\ processed = {} /\ slept = {} /\ snap = <<>>
    /\ todo0 = {} /\ known0 = {} /\ pruned = {}
    /\ created = <<>> /\ failed = {} /\ requested = <<>>

(***************************************************************************)
(* Python values.  None is the absent marker.  A Python list of ids and a  *)
(* bare id are different values: a batch is tagged with which one it is.   *)
(***************************************************************************)
None == "None"

PyList(s) == [tag |-> "list", items |-> s]

BareId(x) == [tag |-> "id", items |-> <<x>>]

Min(a, b) == IF a < b THEN a ELSE b

\* list(itertools.islice(it, size)) on an iterator holding s: the items taken
Take(s, size) == SubSeq(s, 1, Min(size, Len(s)))

\* A slip in the iterator: one item lost after every group.
DropOneMore(s, size) == SubSeq(s, Min(size + 1, Len(s)) + 1, Len(s))

\* ... and what the iterator still holds afterwards
Drop(s, size) == SubSeq(s, Min(size, Len(s)) + 1, Len(s))

(***************************************************************************)
(* split_seq(iterable, size): take `size` items at a time while the taken  *)
(* list is non-empty (size 0 takes nothing, so it yields nothing).         *)
(***************************************************************************)
RECURSIVE split_seq(_, _)
split_seq(iterable, size) ==
    LET item == Take(iterable, size)
    IN  IF item = <<>> THEN <<>>
        ELSE <<item>> \o split_seq(Drop(iterable, size), size)

\* line 42: [req_id for req_id in ids if req_id is not None and req_id not in exclusion]
FilterIds(ids, exclusion) ==
    SelectSeq(ids, LAMBDA req_id : req_id # None /\ req_id \notin exclusion)

\* A slip in the chunk count: floor instead of ceiling drops the short last batch.
ChunksFloor(ids, n) ==
    [i \in 1..(Len(ids) \div n) |->
        PyList(SubSeq(ids, (i - 1) * n + 1, Min(i * n, Len(ids))))]

\* A slip in the slice: its end taken inclusive, one id too many in a batch.
ChunksInclusive(ids, n) ==
    [i \in 1..((Len(ids) + n - 1) \div n) |->
        PyList(SubSeq(ids, (i - 1) * n + 1, Min(i * n + 1, Len(ids))))]

\* lines 44-45: ids[i*n:(i+1)*n] for i in range((len(ids) + n - 1) // n)
Chunks(ids, n) ==
    [i \in 1..((Len(ids) + n - 1) \div n) |->
        PyList(SubSeq(ids, (i - 1) * n + 1, Min(i * n, Len(ids))))]

\* A slip in line 47: wrapping each id in a one-element list.
UnbatchedWrapped(ids) == [i \in 1..Len(ids) |-> PyList(<<ids[i]>>)]

\* line 47: final = ids, the filtered ids themselves, not wrapped
Unbatched(ids) == [i \in 1..Len(ids) |-> BareId(ids[i])]

(***************************************************************************)
(* partition_requests(ids, exclusion, max_ids_per_request,                 *)
(* max_concurrent_requests).  exclusion None is the empty set (lines       *)
(* 40-41); the filter and the chunking run when the function is called,    *)
(* only the grouping is lazy.  The result is the sequence of groups.       *)
(***************************************************************************)
partition_requests(ids, exclusion, max_ids_per_request, max_concurrent_requests) ==
    LET kept == FilterIds(ids, exclusion)
        final == IF max_ids_per_request > 1
                 THEN Chunks(kept, max_ids_per_request)
                 ELSE Unbatched(kept)
    IN  split_seq(final, max_concurrent_requests)

(***************************************************************************)
(* SpecPartition: partition_requests applied to bounded inputs.            *)
(***************************************************************************)
MaxLen == 4
MaxBatch == 3
MaxWidth == 2

PIds == {"a", "b", "c"}

RECURSIVE SeqsUpTo(_, _)
SeqsUpTo(S, n) ==
    IF n = 0 THEN {<<>>}
    ELSE LET shorter == SeqsUpTo(S, n - 1)
         IN  shorter \cup {Append(s, x) : s \in {t \in shorter : Len(t) = n - 1}, x \in S}

PInit ==
    /\ p_ids \in SeqsUpTo(PIds \cup {None}, MaxLen)
    /\ p_exclusion \in SUBSET PIds
    /\ p_max \in 0..MaxBatch
    /\ p_width \in 0..MaxWidth
    /\ p_out = <<>>
    /\ p_pc = "call"
    /\ ROff /\ IOff /\ HOff

PartitionRequests ==
    /\ p_pc = "call"
    /\ p_out' = partition_requests(p_ids, p_exclusion, p_max, p_width)
    /\ p_pc' = "done"
    /\ UNCHANGED <<p_ids, p_exclusion, p_max, p_width, r_vars, i_vars, h_vars>>

PNext == PartitionRequests

SpecPartition == PInit /\ [][PNext]_vars

\* all batches of all groups, in output order
RECURSIVE Concat(_)
Concat(ss) == IF ss = <<>> THEN <<>> ELSE Head(ss) \o Concat(Tail(ss))

AllBatches == Concat(p_out)

\* the ids of all batches, concatenated in output order
FlatIds == Concat([i \in 1..Len(AllBatches) |-> AllBatches[i].items])

Kept == FilterIds(p_ids, p_exclusion)

Count(s, x) == Cardinality({i \in 1..Len(s) : s[i] = x})

NoRepeats(s) == \A i, j \in 1..Len(s) : s[i] = s[j] => i = j

PDone == p_pc = "done"

(***************************************************************************)
(* C1 (as amended).  For every id list L, exclusion set E, max batch size  *)
(* and max concurrency width >= 1, the ids of all batches of all groups,   *)
(* concatenated in output order, are exactly L with null entries and       *)
(* members of E removed, in the same order: no id is added, and every id   *)
(* occurs in the output as often as it occurs in L.                        *)
(***************************************************************************)
C1_FilteringProjection ==
    (PDone /\ p_width >= 1) =>
        /\ FlatIds = Kept
        /\ \A x \in PIds \cup {None} :
              Count(FlatIds, x) =
                  IF x = None \/ x \in p_exclusion THEN 0 ELSE Count(p_ids, x)

\* C1 as stated: ... and no id appears more than once in the output.
C1_Original_NoDuplicates ==
    (PDone /\ p_width >= 1) => (FlatIds = Kept /\ NoRepeats(FlatIds))

\* L holds a null entry, an excluded id and a repeated id that is kept; two batches.
C1_Witness ==
    /\ PDone /\ p_width >= 1
    /\ \E i \in 1..Len(p_ids) : p_ids[i] = None
    /\ \E i \in 1..Len(p_ids) : p_ids[i] \in p_exclusion
    /\ ~NoRepeats(FlatIds)
    /\ Len(AllBatches) >= 2

BatchSizesWithinLimits ==
    \A g \in 1..Len(p_out) :
        /\ Len(p_out[g]) <= p_width
        /\ \A b \in 1..Len(p_out[g]) : Len(p_out[g][b].items) <= p_max

(***************************************************************************)
(* C2 (as amended).  For every input, every max batch size >= 1 and every  *)
(* max concurrency width >= 1, each batch holds at most max-batch-size ids *)
(* and each group holds at most max-concurrency-width batches.             *)
(***************************************************************************)
C2_SizesBounded == (PDone /\ p_max >= 1 /\ p_width >= 1) => BatchSizesWithinLimits

\* C2 as stated: for every max batch size (0 included) and every width >= 1.
C2_Original_AnyBatchSize == (PDone /\ p_width >= 1) => BatchSizesWithinLimits

\* More ids than one batch and more batches than one group: both limits are met.
C2_Witness ==
    /\ PDone /\ p_max >= 2 /\ p_width >= 1
    /\ Len(p_out) >= 2
    /\ Len(p_out[1]) = p_width
    /\ Len(p_out[1][1].items) = p_max

C4_GreedyConsecutiveChunks ==
    (PDone /\ p_max > 1) =>
        /\ \A k \in 1..Len(AllBatches) :
              /\ AllBatches[k].tag = "list"
              /\ Len(AllBatches[k].items) >= 1
              /\ k < Len(AllBatches) => Len(AllBatches[k].items) = p_max
              /\ \A j \in 1..Len(AllBatches[k].items) :
                    /\ (k - 1) * p_max + j <= Len(Kept)
                    /\ AllBatches[k].items[j] = Kept[(k - 1) * p_max + j]
        /\ p_width >= 1 => Len(FlatIds) = Len(Kept)
        /\ \A g \in 1..Len(p_out) :
              /\ Len(p_out[g]) >= 1
              /\ g < Len(p_out) => Len(p_out[g]) = p_width
        /\ Kept = <<>> => p_out = <<>>
        /\ (p_ids = <<"a", "b", "c">> /\ p_exclusion = {} /\ p_max = 2 /\ p_width >= 2) =>
              p_out = << <<PyList(<<"a", "b">>), PyList(<<"c">>)>> >>

\* The example itself, and a run with a short last batch in a second group.
C4_Witness ==
    /\ PDone /\ p_max = 2 /\ p_width = 2
    /\ p_ids = <<"a", "b", "c">> /\ p_exclusion = {}
    /\ p_out = << <<PyList(<<"a", "b">>), PyList(<<"c">>)>> >>

(***************************************************************************)
(* Relationship-type resolution.                                           *)
(*                                                                         *)
(* A JSON object is a function on the keys it holds ("k" in d is           *)
(* k \in DOMAIN d).  A falsy document (None or {}) is the empty function.  *)
(* rel["child"]["resourceId"] is modelled by rel.child holding the id.     *)
(* A URI is kept in the parts urlparse splits it into; its path is the     *)
(* sequence of its "/" separators and segments.                            *)
(***************************************************************************)
NoData == <<>>

Truthy(d) == DOMAIN d # {}

Uri(segments) == [scheme |-> "http", netloc |-> "gedcomx.org", path |-> segments]

\* str.strip('/'): the leading and the trailing "/" removed
RECURSIVE LStrip(_)
LStrip(t) == IF t # <<>> /\ Head(t) = "/" THEN LStrip(Tail(t)) ELSE t

RECURSIVE RStrip(_)
RStrip(t) ==
    IF t # <<>> /\ t[Len(t)] = "/" THEN RStrip(SubSeq(t, 1, Len(t) - 1)) ELSE t

Strip(t) == RStrip(LStrip(t))

\* the members of the RelationshipType enumeration, each named by its value
RelationshipTypeValues ==
    {"UnspecifiedParentType", "BiologicalParent", "StepParent", "AdoptiveParent"}

\* RelationshipType(value): the member with that value
RelationshipType(value) ==
    IF Len(value) = 1 /\ value[1] \in RelationshipTypeValues
    THEN value[1]
    ELSE "ValueError"

UNSPECIFIED_PARENT == "UnspecifiedParentType"

\* line 71: urlparse(fact['type']).path.strip('/')
FactType(fact) == Strip(fact.type.path)

\* line 72, `rel_type != new_type`: a RelationshipType member against the string
\* a fact derived; they are equal when the string is the member's value
EnumEqualsStr(member, value) == value = <<member>>

\* A slip in line 72: the test `rel_type != default` is left out.
ConflictAnyPrevious(rel_type, new_type, default) == ~EnumEqualsStr(rel_type, new_type)

\* line 72: the condition under which lines 73-74 emit the diagnostic
Conflict(rel_type, new_type, default) ==
    rel_type # default /\ ~EnumEqualsStr(rel_type, new_type)

\* lines 70-75: the diagnostics the loop emits, one entry per logger.debug call
RECURSIVE ScanDiagnostics(_, _, _, _, _)
ScanDiagnostics(facts, rel_type, default, rel, field) ==
    IF facts = <<>> THEN <<>>
    ELSE LET new_type == FactType(Head(facts))
             entry == [rel |-> rel.id, field |-> field,
                       old |-> rel_type, new |-> new_type]
         IN  (IF Conflict(rel_type, new_type, default) THEN <<entry>> ELSE <<>>)
                 \o ScanDiagnostics(Tail(facts), RelationshipType(new_type),
                                    default, rel, field)

\* lines 68-76: what get_relationship_type logs
get_relationship_type_log(rel, field, default) ==
    IF field \in DOMAIN rel
    THEN ScanDiagnostics(rel[field], default, default, rel, field)
    ELSE <<>>

\* A slip in lines 70-75: the first fact's type is kept, later facts ignored.
RECURSIVE ScanFactsFirstWins(_, _, _)
ScanFactsFirstWins(facts, rel_type, default) ==
    IF facts = <<>> THEN rel_type
    ELSE ScanFactsFirstWins(Tail(facts),
                            IF rel_type = default
                            THEN RelationshipType(FactType(Head(facts)))
                            ELSE rel_type,
                            default)

\* lines 70-75: the loop over the facts, rel_type carried from fact to fact
RECURSIVE ScanFacts(_, _, _)
ScanFacts(facts, rel_type, default) ==
    IF facts = <<>> THEN rel_type
    ELSE ScanFacts(Tail(facts), RelationshipType(FactType(Head(facts))), default)

get_relationship_type(rel, field, default) ==
    IF field \in DOMAIN rel THEN ScanFacts(rel[field], default, default) ELSE default

\* graph.relationships[(child, parent)] = relationship_type
SetEdge(rels, child, parent, type) ==
    [k \in DOMAIN rels \cup {<<child, parent>>} |->
        IF k = <<child, parent>> THEN type ELSE rels[k]]

\* `if child and parent`: None and the empty string are falsy
Present(x) == x # None /\ x # ""

\* A slip in line 86: an edge that already holds a resolved type is taken for a
\* conflict and set back to pending instead of being overwritten.
_update_relationship_info_reset(rel, child, parent, fact_key, rels) ==
    IF Present(child) /\ Present(parent)
    THEN IF <<child, parent>> \in DOMAIN rels
            /\ rels[<<child, parent>>] # UNSPECIFIED_PARENT
         THEN SetEdge(rels, child, parent, UNSPECIFIED_PARENT)
         ELSE SetEdge(rels, child, parent,
                      get_relationship_type(rel, fact_key, UNSPECIFIED_PARENT))
    ELSE rels

\* lines 83-84: what the call logs (get_relationship_type runs only in the branch)
_update_relationship_info_log(rel, child, parent, fact_key) ==
    IF Present(child) /\ Present(parent)
    THEN get_relationship_type_log(rel, fact_key, UNSPECIFIED_PARENT)
    ELSE <<>>

_update_relationship_info(rel, child, parent, fact_key, rels) ==
    IF Present(child) /\ Present(parent)
    THEN SetEdge(rels, child, parent,
                 get_relationship_type(rel, fact_key, UNSPECIFIED_PARENT))
    ELSE rels

\* lines 92-94: rel[key]["resourceId"] if key in rel else None
ResourceId(rel, key) == IF key \in DOMAIN rel THEN rel[key] ELSE None

\* lines 92-96: one record
ResolveRecord(rel, rels) ==
    LET parent1 == ResourceId(rel, "parent1")
        parent2 == ResourceId(rel, "parent2")
        child == ResourceId(rel, "child")
        after1 == _update_relationship_info(rel, child, parent1, "parent1Facts", rels)
    IN  _update_relationship_info(rel, child, parent2, "parent2Facts", after1)

RECURSIVE ResolveRecords(_, _)
ResolveRecords(records, rels) ==
    IF records = <<>> THEN rels
    ELSE ResolveRecords(Tail(records), ResolveRecord(Head(records), rels))

\* line 90: the records the loop of line 91 runs over
RecordsOf(data) ==
    IF Truthy(data) /\ "childAndParentsRelationships" \in DOMAIN data
    THEN data["childAndParentsRelationships"]
    ELSE <<>>

process_relationship_result(data, rels) == ResolveRecords(RecordsOf(data), rels)

(***************************************************************************)
(* SpecResolve: process_relationship_result on bounded responses, stepping *)
(* through the two _update_relationship_info calls of each record; when    *)
(* the call is over it is made once more with the same response.           *)
(***************************************************************************)
MaxFacts == 2

uBio == Uri(<<"/", "BiologicalParent">>)
uStep == Uri(<<"/", "StepParent", "/">>)
uAdopt == Uri(<<"/", "AdoptiveParent">>)
uUnspec == Uri(<<"/", "UnspecifiedParentType">>)

Uris == {uBio, uStep, uAdopt, uUnspec}

Fact(u) == [type |-> u]

FactLists == SeqsUpTo({Fact(u) : u \in Uris}, MaxFacts)

\* an optional key: <<>> when the key is absent, <<v>> when it holds v
Some(S) == {<<>>} \cup {<<v>> : v \in S}

Key(k, opt) == IF opt = <<>> THEN <<>> ELSE k :> opt[1]

Rel(id, child, parent1, parent2, facts1, facts2) ==
    ("id" :> id) @@ Key("child", child) @@ Key("parent1", parent1)
        @@ Key("parent2", parent2) @@ Key("parent1Facts", facts1)
        @@ Key("parent2Facts", facts2)

RRecords ==
    {Rel("R1", c, p1, p2, f1, f2) :
        c \in Some({"c"}), p1 \in Some({"m"}), p2 \in Some({"m", "f"}),
        f1 \in Some(FactLists),
        f2 \in Some({<<Fact(uStep)>>, <<Fact(uBio), Fact(uStep)>>})}

\* a second record of the same response, on an edge the first may also name
RSecondRecords ==
    {Rel("R2", <<"c">>, <<"m">>, <<>>, <<<<Fact(uAdopt)>>>>, <<>>),
     Rel("R2", <<"c">>, <<"f">>, <<"m">>, <<>>, <<<<Fact(uBio)>>>>)}

RResponses ==
    {NoData, "persons" :> <<>>, "childAndParentsRelationships" :> <<>>}
        \cup {"childAndParentsRelationships" :> <<r>> : r \in RRecords}
        \cup {"childAndParentsRelationships" :> <<r, s>> :
                r \in RRecords, s \in RSecondRecords}

\* the graph before resolution: any of the edges pending, or none
RGraphs ==
    {[k \in E |-> UNSPECIFIED_PARENT] : E \in SUBSET {<<"c", "m">>, <<"c", "f">>}}

RInit ==
    /\ r_data \in RResponses
    /\ r_rels \in RGraphs
    /\ r_before = r_rels
    /\ r_i = 0
    /\ r_pc = "call"
    /\ r_pass = 1
    /\ r_log = <<>>
    /\ POff /\ IOff /\ HOff

RRel == RecordsOf(r_data)[r_i]

\* line 90 and the start of the loop of line 91
RCall ==
    /\ r_pc = "call"
    /\ IF RecordsOf(r_data) = <<>>
       THEN r_pc' = "done" /\ r_i' = r_i
       ELSE r_pc' = "at1" /\ r_i' = 1
    /\ UNCHANGED <<r_data, r_rels, r_before, r_pass, r_log, p_vars, i_vars, h_vars>>

\* line 95
RUpdateParent1 ==
    /\ r_pc = "at1"
    /\ r_rels' = _update_relationship_info(RRel, ResourceId(RRel, "child"),
                     ResourceId(RRel, "parent1"), "parent1Facts", r_rels)
    /\ r_log' = r_log \o _update_relationship_info_log(RRel,
                     ResourceId(RRel, "child"), ResourceId(RRel, "parent1"),
                     "parent1Facts")
    /\ r_pc' = "at2"
    /\ UNCHANGED <<r_data, r_before, r_i, r_pass, p_vars, i_vars, h_vars>>

\* line 96
RUpdateParent2 ==
    /\ r_pc = "at2"
    /\ r_rels' = _update_relationship_info(RRel, ResourceId(RRel, "child"),
                     ResourceId(RRel, "parent2"), "parent2Facts", r_rels)
    /\ r_log' = r_log \o _update_relationship_info_log(RRel,
                     ResourceId(RRel, "child"), ResourceId(RRel, "parent2"),
                     "parent2Facts")
    /\ r_pc' = "next"
    /\ UNCHANGED <<r_data, r_before, r_i, r_pass, p_vars, i_vars, h_vars>>

\* line 91: the next record, or the end of the loop
RNextRecord ==
    /\ r_pc = "next"
    /\ IF r_i < Len(RecordsOf(r_data))
       THEN r_pc' = "at1" /\ r_i' = r_i + 1
       ELSE r_pc' = "done" /\ r_i' = r_i
    /\ UNCHANGED <<r_data, r_rels, r_before, r_pass, r_log, p_vars, i_vars, h_vars>>

\* the caller applies process_relationship_result to the same payload once more
RCallAgain ==
    /\ r_pc = "done"
    /\ r_pass = 1
    /\ r_pass' = 2
    /\ r_before' = r_rels
    /\ r_log' = <<>>
    /\ r_i' = 0
    /\ r_pc' = "call"
    /\ UNCHANGED <<r_data, r_rels, p_vars, i_vars, h_vars>>

RNext == RCall \/ RUpdateParent1 \/ RUpdateParent2 \/ RNextRecord \/ RCallAgain

SpecResolve == RInit /\ [][RNext]_vars

\* the type derived from the last fact of a slot's fact list, or the default
LastFactType(rel, fact_key) ==
    IF fact_key \notin DOMAIN rel \/ rel[fact_key] = <<>>
    THEN UNSPECIFIED_PARENT
    ELSE LET last == rel[fact_key][Len(rel[fact_key])].type.path
         IN  CHOOSE t \in RelationshipTypeValues : <<t>> = Strip(last)

\* the slot that has just been processed stored the last fact's type on its edge
SlotStored(rel, parent_key, fact_key) ==
    ("child" \in DOMAIN rel /\ parent_key \in DOMAIN rel) =>
        /\ <<rel.child, rel[parent_key]>> \in DOMAIN r_rels
        /\ r_rels[<<rel.child, rel[parent_key]>>] = LastFactType(rel, fact_key)

(***************************************************************************)
(* C10.  Last-fact-wins: when _update_relationship_info has run for a      *)
(* parent slot whose child and parent are both present, the type stored on *)
(* edge (child, parent) is the type derived from the last fact of that     *)
(* slot's fact list, and the default 'unspecified' type when the list is   *)
(* absent or empty; for facts [uriA, uriB] it is the one derived from uriB.*)
(***************************************************************************)
C10_LastFactWins ==
    /\ r_pc = "at2" => SlotStored(RRel, "parent1", "parent1Facts")
    /\ r_pc = "next" => SlotStored(RRel, "parent2", "parent2Facts")
    /\ r_pc = "done" => r_rels = process_relationship_result(r_data, r_before)

\* parent1Facts [uriA, uriB], uriA # uriB, both non-default: uriB's type is stored.
C10_Witness ==
    /\ r_pc = "at2"
    /\ "child" \in DOMAIN RRel /\ "parent1" \in DOMAIN RRel
    /\ "parent1Facts" \in DOMAIN RRel
    /\ RRel.parent1Facts = <<Fact(uBio), Fact(uStep)>>
    /\ r_rels[<<RRel.child, RRel.parent1>>] = "StepParent"

(***************************************************************************)
(* C11.  Resolution is idempotent: when process_relationship_result has    *)
(* been applied a second time with the identical payload, every edge holds *)
(* the type it held after the first application (and the graph holds the   *)
(* same edges), for every response and every starting graph.               *)
(***************************************************************************)
C11_ResolutionIdempotent ==
    (r_pass = 2 /\ r_pc = "done") => r_rels = r_before

\* A second application has rewritten an edge the first had resolved.
C11_Witness ==
    /\ r_pass = 2 /\ r_pc = "done"
    /\ Len(RecordsOf(r_data)) = 2
    /\ \A i \in {1, 2} :
          /\ {"child", "parent1", "parent1Facts"} \subseteq DOMAIN RecordsOf(r_data)[i]
          /\ RecordsOf(r_data)[i].parent1 = "m"
    /\ RecordsOf(r_data)[1].parent1Facts = <<Fact(uBio)>>
    /\ r_rels[<<"c", "m">>] = "AdoptiveParent"

\* the type a fact derives, as a member of the tag set
TypeOf(fact) == CHOOSE t \in RelationshipTypeValues : <<t>> = Strip(fact.type.path)

\* the type accepted before fact i of the list is scanned
Accepted(facts, i) == IF i = 1 THEN UNSPECIFIED_PARENT ELSE TypeOf(facts[i - 1])

\* the facts of the list before which a non-default, different type was accepted
ConflictAt(facts) ==
    {i \in 1..Len(facts) :
        /\ Accepted(facts, i) # UNSPECIFIED_PARENT
        /\ Accepted(facts, i) # TypeOf(facts[i])}

\* the diagnostics the call has emitted for one slot of one record
SlotLog(rel, fact_key) ==
    SelectSeq(r_log, LAMBDA e : e.rel = rel.id /\ e.field = fact_key)

\* the fact list get_relationship_type scanned for the slot, if it scanned one
Scanned(rel, parent_key, fact_key) ==
    IF {"child", parent_key, fact_key} \subseteq DOMAIN rel THEN rel[fact_key] ELSE <<>>

SlotDiagnosed(rel, parent_key, fact_key) ==
    LET facts == Scanned(rel, parent_key, fact_key)
        log == SlotLog(rel, fact_key)
    IN  /\ Len(log) = Cardinality(ConflictAt(facts))
        /\ {<<log[j].old, log[j].new>> : j \in 1..Len(log)}
              = {<<Accepted(facts, i), <<TypeOf(facts[i])>>>> : i \in ConflictAt(facts)}
        /\ (/\ Len(facts) = 2
            /\ TypeOf(facts[1]) # TypeOf(facts[2])
            /\ UNSPECIFIED_PARENT \notin {TypeOf(facts[1]), TypeOf(facts[2])})
                => Len(log) = 1
        /\ (\A i, j \in 1..Len(facts) : TypeOf(facts[i]) = TypeOf(facts[j]))
                => Len(log) = 0

C18_EdgeKeysUnchanged ==
    r_pc = "done" =>
        /\ DOMAIN r_rels = DOMAIN r_before
        /\ (\A i \in 1..Len(RecordsOf(r_data)) :
                LET rel == RecordsOf(r_data)[i]
                IN  "child" \notin DOMAIN rel
                        \/ {"parent1", "parent2"} \cap DOMAIN rel = {})
                => r_rels = r_before

(***************************************************************************)
(* Person ingestion.  The graph is the record g of its four containers;    *)
(* g.raised tells that the call ended in an exception (a key the document  *)
(* does not hold).  The Graph methods are modelled from the specification: *)
(* the frontier is a set, an edge is created pending on first discovery,   *)
(* the validator is told every (child, parent, relationship id).           *)
(***************************************************************************)
Graph(inds, front, rels, val) ==
    [individuals |-> inds, frontier |-> front, relationships |-> rels,
     validator |-> val, raised |-> FALSE]

add_to_frontier(g, id) == [g EXCEPT !.frontier = @ \cup {id}]

add_parent_child_relationship(g, child, parent) ==
    IF <<child, parent>> \in DOMAIN g.relationships
    THEN g
    ELSE [g EXCEPT !.relationships = SetEdge(@, child, parent, UNSPECIFIED_PARENT)]

cp_validator_add(g, child, parent, rel_id) ==
    [g EXCEPT !.validator = @ \cup {<<child, parent, rel_id>>}]

\* A slip in line 105: a parent that is already known is kept off the frontier.
_process_parent_child_known(key, data, g, child, rel_id) ==
    IF key \in DOMAIN data
    THEN LET parent == data[key]
             g1 == IF parent \in DOMAIN g.individuals THEN g
                   ELSE add_to_frontier(g, parent)
         IN  cp_validator_add(add_parent_child_relationship(g1, child, parent),
                              child, parent, rel_id)
    ELSE g

\* lines 102-107
_process_parent_child(key, data, g, child, rel_id) ==
    IF key \in DOMAIN data
    THEN LET parent == data[key]
         IN  cp_validator_add(
                 add_parent_child_relationship(add_to_frontier(g, parent), child, parent),
                 child, parent, rel_id)
    ELSE g

\* lines 113-115: graph.individuals[id] = Individual(id), tagged with the hop
IngestPerson(g, person, hop) ==
    [g EXCEPT !.individuals =
                  [k \in DOMAIN @ \cup {person.id} |->
                      IF k = person.id THEN [id |-> person.id, hop |-> hop] ELSE @[k]]]

RECURSIVE IngestPersons(_, _, _)
IngestPersons(persons, g, hop) ==
    IF persons = <<>> THEN g
    ELSE IngestPersons(Tail(persons), IngestPerson(g, Head(persons), hop), hop)

\* A slip in lines 121-122: the parent2 slot of an entry is not processed.
IngestRelationshipParent1Only(relationship, g) ==
    IF "id" \notin DOMAIN relationship \/ "child" \notin DOMAIN relationship
    THEN [g EXCEPT !.raised = TRUE]
    ELSE LET rel_id == relationship.id
             child == relationship.child
             g1 == add_to_frontier(g, child)
         IN  _process_parent_child("parent1", relationship, g1, child, rel_id)

\* lines 118-122: one relationship entry of a persons response
IngestRelationship(relationship, g) ==
    IF "id" \notin DOMAIN relationship \/ "child" \notin DOMAIN relationship
    THEN [g EXCEPT !.raised = TRUE]
    ELSE LET rel_id == relationship.id
             child == relationship.child
             g1 == add_to_frontier(g, child)
             g2 == _process_parent_child("parent1", relationship, g1, child, rel_id)
         IN  _process_parent_child("parent2", relationship, g2, child, rel_id)

RECURSIVE IngestRelationships(_, _)
IngestRelationships(rels, g) ==
    IF rels = <<>> \/ g.raised THEN g
    ELSE IngestRelationships(Tail(rels), IngestRelationship(Head(rels), g))

\* lines 110-122
process_persons_result(data, g, hop) ==
    IF ~Truthy(data) THEN g
    ELSE IF "persons" \notin DOMAIN data THEN [g EXCEPT !.raised = TRUE]
    ELSE LET g1 == IngestPersons(data.persons, g, hop)
         IN  IF "childAndParentsRelationships" \in DOMAIN data
             THEN IngestRelationships(data["childAndParentsRelationships"], g1)
             ELSE g1

(***************************************************************************)
(* SpecIngest: process_persons_result on bounded response documents, with  *)
(* either section present or absent, applied to graphs that do or do not   *)
(* hold the edge (c, m) yet, pending or resolved.                          *)
(***************************************************************************)
MaxPersons == 2

IPersonLists == SeqsUpTo({[id |-> x] : x \in {"a", "b"}}, MaxPersons)

IEntries ==
    {Rel("R1", <<"c">>, p1, p2, <<>>, <<>>) :
        p1 \in Some({"m"}), p2 \in Some({"m", "f"})}

\* a second entry of the same section, whose child is a person of the response
ISecondEntry == Rel("R2", <<"a">>, <<"c">>, <<>>, <<>>, <<>>)

IEntryLists ==
    {<<>>} \cup {<<e>> : e \in IEntries} \cup {<<e, ISecondEntry>> : e \in IEntries}

\* the documents: each section present or absent (a document with neither is {})
IResponses ==
    {Key("persons", p) @@ Key("childAndParentsRelationships", r) :
        p \in Some(IPersonLists), r \in Some(IEntryLists)}

IGraphs ==
    {Graph([k \in K |-> [id |-> k, hop |-> 0]], F, E, {}) :
        K \in SUBSET {"a"}, F \in SUBSET {"c", "m"},
        E \in {<<>>, <<"c", "m">> :> UNSPECIFIED_PARENT,
                     <<"c", "m">> :> "BiologicalParent"}}

IInit ==
    /\ i_data \in IResponses
    /\ i_graph \in IGraphs
    /\ i_hop \in {1, 2}
    /\ i_out = i_graph
    /\ i_pc = "call"
    /\ POff /\ ROff /\ HOff

\* lines 110-122: the call
IProcessPersonsResult ==
    /\ i_pc = "call"
    /\ i_out' = process_persons_result(i_data, i_graph, i_hop)
    /\ i_pc' = "done"
    /\ UNCHANGED <<i_data, i_graph, i_hop, p_vars, r_vars, h_vars>>

INext == IProcessPersonsResult

SpecIngest == IInit /\ [][INext]_vars

\* the sections of the document, empty when absent
IPersons == IF "persons" \in DOMAIN i_data THEN i_data.persons ELSE <<>>

IRelationships ==
    IF "childAndParentsRelationships" \in DOMAIN i_data
    THEN i_data["childAndParentsRelationships"]
    ELSE <<>>

IPersonIds == {IPersons[j].id : j \in 1..Len(IPersons)}

\* the (child, parent) pairs of the present parent slots of the entries
IPairs ==
    UNION {{<<IRelationships[j].child, IRelationships[j][k]>> :
                k \in {"parent1", "parent2"} \cap DOMAIN IRelationships[j]} :
           j \in 1..Len(IRelationships)}

IChildren == {IRelationships[j].child : j \in 1..Len(IRelationships)}

\* the call ended normally on a document that holds a persons section
IIngested == i_pc = "done" /\ ~i_out.raised /\ "persons" \in DOMAIN i_data

\* one individual per person entry, tagged with the hop; the others as they were
IIndividualsCreated ==
    /\ DOMAIN i_out.individuals = DOMAIN i_graph.individuals \cup IPersonIds
    /\ \A id \in DOMAIN i_out.individuals :
          i_out.individuals[id] =
              IF id \in IPersonIds THEN [id |-> id, hop |-> i_hop]
              ELSE i_graph.individuals[id]

\* the child and the present parents join the frontier, nothing else does; the
\* present pairs are edges, and no other edge is added
IFrontierAndEdges ==
    /\ i_out.frontier = i_graph.frontier \cup IChildren \cup {e[2] : e \in IPairs}
    /\ DOMAIN i_out.relationships = DOMAIN i_graph.relationships \cup IPairs

C14_AbsentSectionIgnored ==
    (i_pc = "done" /\ Truthy(i_data)) =>
        /\ ~i_out.raised
        /\ "persons" \notin DOMAIN i_data => i_out.individuals = i_graph.individuals
        /\ "childAndParentsRelationships" \notin DOMAIN i_data =>
              /\ i_out.frontier = i_graph.frontier
              /\ i_out.relationships = i_graph.relationships
              /\ i_out.validator = i_graph.validator

(***************************************************************************)
(* The remote tree the session answers from: five persons and three        *)
(* child-and-parents relationships.  R1 and R2 both name the pair          *)
(* (p1, p2), with different facts; p2 is a parent of p1 and of p4.         *)
(***************************************************************************)
Ids == {"p1", "p2", "p3", "p4", "p5"}

Tree ==
    << Rel("R1", <<"p1">>, <<"p2">>, <<"p3">>,
           <<<<Fact(uBio)>>>>, <<<<Fact(uBio), Fact(uStep)>>>>),
       Rel("R2", <<"p1">>, <<"p2">>, <<>>, <<<<Fact(uStep)>>>>, <<>>),
       Rel("R3", <<"p4">>, <<"p2">>, <<"p5">>, <<>>, <<<<>>>>) >>

\* the persons a crawl may already know when the first hop starts
KnownAtStart == {"p2", "p3"}

Touches(rel, ids) ==
    \E k \in {"child", "parent1", "parent2"} \cap DOMAIN rel :
        \E j \in 1..Len(ids) : ids[j] = rel[k]

\* GET_PERSONS + ",".join(ids): the persons asked for, and the relationships they
\* take part in (the section is left out when there are none)
PersonsResponse(ids) ==
    LET rels == SelectSeq(Tree, LAMBDA rel : Touches(rel, ids))
    IN  ("persons" :> [j \in 1..Len(ids) |-> [id |-> ids[j]]])
            @@ (IF rels = <<>> THEN <<>> ELSE "childAndParentsRelationships" :> rels)

\* RESOLVE_RELATIONSHIP + rel_id + ".json": the one relationship with that id
RelationshipResponse(rel_id) ==
    "childAndParentsRelationships" :> SelectSeq(Tree, LAMBDA rel : rel.id = rel_id)

(***************************************************************************)
(* process_hop, one step per suspension point.                             *)
(***************************************************************************)
\* MAX_PERSONS (200) and MAX_CONCURRENT_REQUESTS (40) are scaled down to what a
\* tree of five persons can fill; the delay is the program's.
MAX_PERSONS == 2
MAX_CONCURRENT_REQUESTS == 2
DELAY_BETWEEN_SUBSEQUENT_REQUESTS == 2

\* the hops the driver runs
MaxHops == 2

\* the orders in which a set may be iterated
Orders(S) ==
    {o \in [1..Cardinality(S) -> S] : \A i, j \in 1..Cardinality(S) : o[i] = o[j] => i = j}

TheGraph == Graph(individuals, frontier, relationships, validator)

\* the (group, batch) indices of group k of the plan
BatchesOf(k) == {<<k, i>> : i \in 1..Len(plan[k])}

\* the document the remote tree holds for the fetch of batch b
Response(b) ==
    IF pc = "persons"
    THEN PersonsResponse(plan[b[1]][b[2]].items)
    ELSE RelationshipResponse(plan[b[1]][b[2]].items[1])

\* asyncio.gather without awaiting it to the end: the loop goes on at once.
GatherNotAwaited(pending) == TRUE

\* lines 134, 147: run_until_complete(gather(...)) returns when no fetch is pending
GatherDone(pending) == pending = {}

\* line 156 left out.
PruneSkipped(front, inds) == front

\* line 156: graph.frontier -= graph.individuals.keys()
Prune(front, inds) == front \ DOMAIN inds

\* graph.get_relationships_to_validate(strict_resolve): some of the relationship
\* ids the validator was told; which ones is the validator's own matter
RelationshipsToValidate(val) == SUBSET {t[3] : t \in val}

\* todo aliases graph.frontier: line 154 empties the snapshot too.
FrontierAliased(front) == {}

\* line 153: todo = graph.frontier.copy()
FrontierCopy(front) == front

\* partition_requests called without the exclusion.
ExclusionNone(inds) == {}

\* line 132: graph.individuals as the exclusion; line 42 tests its keys
Exclusion(inds) == DOMAIN inds

\* gather(..., return_exceptions=True): the exception is kept as a result and
\* the phase goes on.
OnTransportFailureSwallowed(phase) == phase

\* lines 134, 147: no try/except around the gather, nor in process_hop
OnTransportFailure(phase) == "aborted"

\* the for loop is left after its first group.
LoopLeftEarly(taken, groups) == taken >= 1 \/ groups = <<>>

\* lines 132, 145: the for loop ends when the generator has no group left
LoopExhausted(taken, groups) == taken = Len(groups)

\* how many person entries of a response carry the id (line 113 runs for each)
CreatedBy(data, id) ==
    IF Truthy(data) /\ "persons" \in DOMAIN data
    THEN Cardinality({j \in 1..Len(data.persons) : data.persons[j].id = id})
    ELSE 0

\* line 99: how often the fetches of a group of person batches ask for the id
RequestedBy(group, id) ==
    Cardinality({ij \in (1..Len(group)) \X (1..MAX_PERSONS) :
                    /\ ij[2] <= Len(group[ij[1]].items)
                    /\ group[ij[1]].items[ij[2]] = id})

HInit ==
    /\ individuals \in {[k \in K |-> [id |-> k, hop |-> 0]] : K \in SUBSET KnownAtStart}
    /\ frontier \in SUBSET Ids
    /\ relationships = <<>>
    /\ validator = {}
    /\ hop_count = 0
    /\ pc = "idle"
    /\ plan = <<>> /\ gen = 0 /\ inflight = {} /\ reply = <<>> /\ timer = 0
    /\ processed = {} /\ order = <<>> /\ slept = {} /\ snap = TheGraph
    /\ todo0 = {} /\ known0 = {} /\ pruned = {}
    /\ created = [id \in Ids |-> 0] /\ failed = {} /\ requested = [id \in Ids |-> 0]
    /\ POff /\ ROff /\ IOff

\* lines 152-154 and the call of partition_requests in line 132
StartHop ==
    /\ pc = "idle"
    /\ hop_count < MaxHops
    /\ \E todo \in Orders(FrontierCopy(frontier)) :
          plan' = partition_requests(todo, Exclusion(individuals),
                                     MAX_PERSONS, MAX_CONCURRENT_REQUESTS)
    /\ frontier' = {}
    /\ pc' = "persons"
    /\ gen' = 0 /\ reply' = <<>> /\ processed' = {} /\ order' = <<>> /\ slept' = {}
    /\ todo0' = frontier /\ known0' = DOMAIN individuals /\ pruned' = {}
    /\ requested' = [id \in Ids |-> 0]
    /\ UNCHANGED <<individuals, relationships, validator, hop_count, inflight, timer,
                   snap, created, failed, p_vars, r_vars, i_vars>>

\* lines 132-134, 145-147: the for loop takes the next group and starts its fetches
LaunchGroup ==
    /\ pc \in {"persons", "resolve"}
    /\ gen < Len(plan)
    /\ GatherDone(inflight)
    /\ timer = 0
    /\ gen' = gen + 1
    /\ inflight' = inflight \cup BatchesOf(gen + 1)
    /\ \E empty \in SUBSET BatchesOf(gen + 1) :
          reply' = [b \in DOMAIN reply \cup BatchesOf(gen + 1) |->
                       IF b \in DOMAIN reply THEN reply[b]
                       ELSE IF b \in empty THEN NoData
                       ELSE Response(b)]
    /\ order' = <<>>
    /\ snap' = TheGraph
    /\ requested' = IF pc = "persons"
                    THEN [id \in Ids |-> requested[id] + RequestedBy(plan[gen + 1], id)]
                    ELSE requested
    /\ UNCHANGED <<g_vars, hop_count, pc, plan, timer, processed, slept,
                   todo0, known0, pruned, created, failed, p_vars, r_vars, i_vars>>

\* what a completed fetch leaves of the waiting: the delay starts at the barrier
AfterFetch(b) ==
    /\ inflight' = inflight \ {b}
    /\ processed' = processed \cup {b}
    /\ order' = Append(order, b)
    /\ timer' = IF inflight \ {b} = {} THEN DELAY_BETWEEN_SUBSEQUENT_REQUESTS ELSE timer
    /\ slept' = IF inflight \ {b} = {} /\ DELAY_BETWEEN_SUBSEQUENT_REQUESTS = 0
                THEN slept \cup {b[1]} ELSE slept

\* lines 98-99: a persons fetch returns (a document, or an empty body) and
\* process_persons_result runs on it
CompletePersons ==
    /\ pc = "persons"
    /\ \E b \in inflight :
          LET g == process_persons_result(reply[b], TheGraph, hop_count)
          IN  /\ individuals' = g.individuals
              /\ frontier' = g.frontier
              /\ relationships' = g.relationships
              /\ validator' = g.validator
              /\ IF g.raised
                 THEN pc' = "aborted"
                      /\ UNCHANGED <<inflight, processed, order, timer, slept>>
                 ELSE pc' = pc /\ AfterFetch(b)
              /\ created' = [id \in Ids |-> created[id] + CreatedBy(reply[b], id)]
    /\ UNCHANGED <<hop_count, plan, gen, reply, snap, todo0, known0, pruned,
                   failed, requested, p_vars, r_vars, i_vars>>

\* lines 78-79: a relationship fetch returns and process_relationship_result runs
CompleteResolve ==
    /\ pc = "resolve"
    /\ \E b \in inflight :
          /\ relationships' = process_relationship_result(reply[b], relationships)
          /\ AfterFetch(b)
    /\ UNCHANGED <<individuals, frontier, validator, hop_count, pc, plan, gen, reply,
                   snap, todo0, known0, pruned, created, failed, requested,
                   p_vars, r_vars, i_vars>>

\* a fetch raises: gather passes the exception on, nothing in process_hop catches it
FailFetch ==
    /\ pc \in {"persons", "resolve"}
    /\ \E b \in inflight :
          /\ inflight' = inflight \ {b}
          /\ failed' = failed \cup {<<pc, b[1], b[2]>>}
    /\ pc' = OnTransportFailure(pc)
    /\ UNCHANGED <<g_vars, hop_count, plan, gen, reply, timer, processed, order,
                   slept, snap, todo0, known0, pruned, created, requested,
                   p_vars, r_vars, i_vars>>

\* lines 135-136, 148-149: time.sleep(delay)
Sleep ==
    /\ pc \in {"persons", "resolve"}
    /\ timer > 0
    /\ timer' = timer - 1
    /\ slept' = IF timer = 1 THEN slept \cup {gen} ELSE slept
    /\ UNCHANGED <<g_vars, hop_count, pc, plan, gen, inflight, reply, processed,
                   order, snap, todo0, known0, pruned, created, failed, requested,
                   p_vars, r_vars, i_vars>>

\* lines 156-160 up to the call of partition_requests in line 145
StartResolve ==
    /\ pc = "persons"
    /\ LoopExhausted(gen, plan) /\ GatherDone(inflight) /\ timer = 0
    /\ frontier' = Prune(frontier, individuals)
    /\ pruned' = frontier \ Prune(frontier, individuals)
    /\ \E relationships_to_validate \in RelationshipsToValidate(validator) :
        \E rel_ids \in Orders(relationships_to_validate) :
          plan' = partition_requests(rel_ids, {}, 1, MAX_CONCURRENT_REQUESTS * 5)
    /\ pc' = "resolve"
    /\ gen' = 0 /\ reply' = <<>> /\ processed' = {} /\ order' = <<>> /\ slept' = {}
    /\ UNCHANGED <<individuals, relationships, validator, hop_count, inflight, timer,
                   snap, todo0, known0, created, failed, requested,
                   p_vars, r_vars, i_vars>>

\* lines 162-163: the hop is over; the driver may run the next one
EndHop ==
    /\ pc = "resolve"
    /\ LoopExhausted(gen, plan) /\ GatherDone(inflight) /\ timer = 0
    /\ pc' = "idle"
    /\ hop_count' = hop_count + 1
    /\ order' = <<>>
    /\ UNCHANGED <<g_vars, plan, gen, inflight, reply, timer, processed, slept, snap,
                   todo0, known0, pruned, created, failed, requested,
                   p_vars, r_vars, i_vars>>

Next ==
    \/ StartHop
    \/ LaunchGroup
    \/ CompletePersons
    \/ CompleteResolve
    \/ FailFetch
    \/ Sleep
    \/ StartResolve
    \/ EndHop

Spec == HInit /\ [][Next]_vars

\* a group of the hop has passed its barrier: every fetch of it was processed
AtBarrier(phase) ==
    /\ pc = phase
    /\ gen >= 1
    /\ inflight = {}
    /\ Len(order) = Len(plan[gen])

\* the batches of the current group in the order of their indices
IndexOrder == [i \in 1..Len(plan[gen]) |-> <<gen, i>>]

RECURSIVE PersonsInOrder(_, _)
PersonsInOrder(batches, g) ==
    IF batches = <<>> THEN g
    ELSE PersonsInOrder(Tail(batches),
                        process_persons_result(reply[Head(batches)], g, hop_count))

RECURSIVE ResolveInOrder(_, _)
ResolveInOrder(batches, rels) ==
    IF batches = <<>> THEN rels
    ELSE ResolveInOrder(Tail(batches),
                        process_relationship_result(reply[Head(batches)], rels))

(***************************************************************************)
(* C5.  When a process_hop that completed normally is over, and already    *)
(* throughout its relationship-resolution phase, the frontier and the set  *)
(* of known individual ids are disjoint, whatever graph the hop started    *)
(* from.                                                                   *)
(***************************************************************************)
C5_FrontierDisjointFromKnown ==
    (pc = "resolve" \/ (pc = "idle" /\ hop_count >= 1)) =>
        frontier \cap DOMAIN individuals = {}

\* A hop is over whose ingestion had put known ids back on the frontier.
C5_Witness ==
    /\ pc = "idle" /\ hop_count >= 1
    /\ pruned # {}
    /\ frontier # {}
    /\ todo0 \cap known0 # {}

(***************************************************************************)
(* C6.  Person ingestion commutes: when a group of person batches has      *)
(* passed its barrier, individuals (with their hop), frontier and          *)
(* relationship edges (with their types) are what processing the same      *)
(* responses in index order gives, in whatever order the fetches completed.*)
(***************************************************************************)
C6_PersonIngestionCommutes ==
    AtBarrier("persons") =>
        LET g == PersonsInOrder(IndexOrder, snap)
        IN  /\ individuals = g.individuals
            /\ frontier = g.frontier
            /\ relationships = g.relationships

\* Two batches that both name p2 were processed against the order of their indices.
C6_Witness ==
    /\ AtBarrier("persons")
    /\ Len(plan[gen]) = 2
    /\ order = <<<<gen, 2>>, <<gen, 1>>>>
    /\ \A b \in {<<gen, 1>>, <<gen, 2>>} :
          /\ "childAndParentsRelationships" \in DOMAIN reply[b]
          /\ \E i \in 1..Len(reply[b]["childAndParentsRelationships"]) :
                reply[b]["childAndParentsRelationships"][i].parent1 = "p2"
    /\ "p2" \in DOMAIN individuals /\ "p2" \in frontier

(***************************************************************************)
(* C7 (as stated).  Relationship resolution commutes: when a group of      *)
(* relationship fetches has passed its barrier, the type on every edge is  *)
(* what processing the same responses in index order gives, also when two  *)
(* relationship ids of the group name the same (child, parent) pair.       *)
(***************************************************************************)
C7_ResolutionCommutes ==
    AtBarrier("resolve") =>
        relationships = ResolveInOrder(IndexOrder, snap.relationships)

(***************************************************************************)
(* C8.  Fan-out/fan-in barrier: a fetch of group k is awaited only when    *)
(* every batch of every earlier group of the phase has had its result      *)
(* processed and the delay after that group has elapsed.                   *)
(***************************************************************************)
C8_GroupBarrier ==
    \A b \in inflight :
        \A k \in 1..(b[1] - 1) :
            /\ BatchesOf(k) \subseteq processed
            /\ BatchesOf(k) \cap inflight = {}
            /\ k \in slept

\* The second group of a person phase is in flight.
C8_Witness ==
    /\ pc = "persons"
    /\ gen = 2
    /\ Len(plan[1]) = MAX_CONCURRENT_REQUESTS
    /\ inflight = BatchesOf(2)
    /\ processed = BatchesOf(1)
    /\ 1 \in slept

(***************************************************************************)
(* C9 (as stated).  In both phases of a hop the number of requests in      *)
(* flight never exceeds MAX_CONCURRENT_REQUESTS.                           *)
(***************************************************************************)
C9_InFlightWithinLimit == Cardinality(inflight) <= MAX_CONCURRENT_REQUESTS

\* a person fetch of the hop has raised
PersonFetchFailed == \E f \in failed : f[1] = "persons"

(***************************************************************************)
(* C13.  A transport failure raised by a fetch is not caught and not       *)
(* retried: the step in which it is raised aborts the hop, and from then   *)
(* on no group is dispatched, no fetch is issued or re-issued, nothing is  *)
(* ingested and the relationship-resolution phase is not started.          *)
(***************************************************************************)
C13_FailureAbortsHop ==
    /\ [](failed # {} =>
            /\ pc = "aborted"
            /\ \A f \in failed : <<f[2], f[3]>> \notin inflight)
    /\ [][/\ failed' # failed => pc' = "aborted"
          /\ failed # {} =>
                /\ pc' = "aborted"
                /\ gen' = gen /\ plan' = plan
                /\ inflight' \subseteq inflight
                /\ processed' = processed
                /\ requested' = requested]_vars

\* A person fetch of the first group failed while the other fetch of the group
\* was pending and a second group was still to come.
C13_Witness ==
    /\ pc = "aborted"
    /\ PersonFetchFailed
    /\ gen = 1 /\ Len(plan) = 2
    /\ Cardinality(inflight) = 1
    /\ processed = {}

(***************************************************************************)
(* C15.  Across the hops an individual is created at most once per id:     *)
(* line 113 runs for an id only while the id is not in the individuals     *)
(* map, the entry is tagged with the hop that created it, and an entry of  *)
(* the map is never replaced, deleted or retagged.                         *)
(***************************************************************************)
C15_CreatedOnce ==
    /\ [](\A id \in Ids :
            /\ created[id] <= 1
            /\ created[id] = 1 => id \in DOMAIN individuals)
    /\ [][\A id \in Ids :
            /\ id \in DOMAIN individuals =>
                  /\ id \in DOMAIN individuals'
                  /\ individuals'[id] = individuals[id]
                  /\ created'[id] = created[id]
            /\ (id \notin DOMAIN individuals /\ id \in DOMAIN individuals') =>
                  /\ individuals'[id].hop = hop_count
                  /\ created'[id] = 1]_vars

\* Two hops are over; an individual of the first hop was met again by the
\* ingestion of the second and kept its entry.
C15_Witness ==
    /\ pc = "idle" /\ hop_count = 2
    /\ \E a \in pruned :
          /\ created[a] = 1
          /\ individuals[a].hop = 0
    /\ \E b \in DOMAIN individuals : individuals[b].hop = 1

\* the (group, batch) indices of a plan
BatchesOfPlan(groups) ==
    {ij \in (1..Len(groups)) \X (1..MAX_CONCURRENT_REQUESTS * 5) :
        ij[2] <= Len(groups[ij[1]])}

(***************************************************************************)
(* C16.  The two phases of a hop are strictly sequential: the step that    *)
(* enters the resolution phase is taken only when every group of person    *)
(* fetches has been dispatched, processed and slept after, it prunes the   *)
(* frontier of the known individuals and only then takes the relationship  *)
(* ids from the validator; a relationship fetch is issued only after it.   *)
(***************************************************************************)
C16_PhasesSequential ==
    [][/\ (pc = "persons" /\ pc' = "resolve") =>
            /\ gen = Len(plan)
            /\ processed = BatchesOfPlan(plan)
            /\ inflight = {} /\ inflight' = {}
            /\ timer = 0
            /\ frontier' = frontier \ DOMAIN individuals
            /\ frontier' \cap DOMAIN individuals' = {}
            /\ validator' = validator
            /\ \A ij \in BatchesOfPlan(plan') :
                  plan'[ij[1]][ij[2]].items[1] \in {t[3] : t \in validator}
       /\ (pc' = "resolve" /\ ~(inflight' \subseteq inflight)) => pc = "resolve"
       /\ pc' = "resolve" => pc \in {"persons", "resolve"}]_vars

\* Two groups of person fetches are over, the frontier was pruned and a
\* relationship fetch is in flight.
C16_Witness ==
    /\ pc = "resolve"
    /\ Cardinality(todo0 \ known0) = 5
    /\ pruned # {}
    /\ inflight # {}

(***************************************************************************)
(* C19.  In a hop that completes normally every id that was in the         *)
(* frontier at hop start and was not a known individual at hop start is    *)
(* requested in exactly one person batch, and no id known at hop start is  *)
(* requested; the batches are fixed, exclusion applied, before the first   *)
(* group is dispatched.                                                    *)
(***************************************************************************)
C19_RequestedExactlyOnce ==
    /\ (pc = "resolve" \/ (pc = "idle" /\ hop_count >= 1)) =>
          \A id \in Ids :
              requested[id] = IF id \in todo0 \ known0 THEN 1 ELSE 0
    /\ pc = "persons" =>
          /\ \A id \in Ids :
                /\ requested[id] <= 1
                /\ id \notin todo0 \ known0 => requested[id] = 0
          /\ \A id \in Ids :
                Cardinality({ij \in BatchesOfPlan(plan) :
                                \E j \in 1..Len(plan[ij[1]][ij[2]].items) :
                                    plan[ij[1]][ij[2]].items[j] = id})
                    = IF id \in todo0 \ known0 THEN 1 ELSE 0

\* A hop is over whose frontier held known and unknown ids at its start.
C19_Witness ==
    /\ pc = "idle" /\ hop_count >= 1
    /\ todo0 \cap known0 # {}
    /\ Cardinality(todo0 \ known0) = 3
    /\ \A id \in todo0 \ known0 : requested[id] = 1

(***************************************************************************)
(* C20 (as stated).  No discovered id is lost when a hop fails: when       *)
(* process_hop has aborted because a person fetch failed, every id that    *)
(* was in the frontier at hop start is a known individual or is still in   *)
(* the frontier.                                                           *)
(***************************************************************************)
C20_NoIdLostOnFailure ==
    (pc = "aborted" /\ PersonFetchFailed) =>
        \A id \in todo0 : id \in DOMAIN individuals \/ id \in frontier

====
